---- MODULE Spec2Model ----
(***************************************************************************)
(* Model of the Excel sensor cleaner (streamlit_excel_cleaner_app.py,      *)
(* excel_cleaner_app.py, excel_cleaner_app_2_like.py): header              *)
(* normalisation, column classification, datetime / numeric coercion, the  *)
(* derived Days column and the cleaning pipeline that runs them in order.  *)
(*                                                                         *)
(* Text is a sequence of one-character strings, so that strip, lower and   *)
(* the regular expressions act on characters.  A DataFrame is a record     *)
(* [cols, index, src]: cols a sequence of columns [name, dtype, vals],     *)
(* index the row labels, src the position each row had in the sheet as it  *)
(* was loaded (history only: no operation reads it).                       *)
(***************************************************************************)
EXTENDS Integers, Sequences, FiniteSets, TLC

VARIABLES pc, raised, variant, labels, pattern, keep_blank_rows, raw_df,
          clean_df, dt_col, sensor_cols, insert_after, df_in, df_out, df_out2

vars == <<pc, raised, variant, labels, pattern, keep_blank_rows, raw_df,
          clean_df, dt_col, sensor_cols, insert_after, df_in, df_out, df_out2>>

(***************************************************************************)
(* Bounds of the model.                                                    *)
(***************************************************************************)
\* rows of a sheet in the row-wide family of pipeline inputs, and of a
\* table handed to add_days_column
MaxRows == 2
\* rows of a sheet in the header-wide family of pipeline inputs
MaxHeaderRows == 1
\* characters of a raw label in the label-wide family of inputs
MaxLabelLen == 4

(***************************************************************************)
(* Sets and sequences.                                                     *)
(***************************************************************************)
Range(s) == {s[i] : i \in 1..Len(s)}

SetMin(S) == CHOOSE m \in S : \A o \in S : m <= o

SetMax(S) == CHOOSE m \in S : \A o \in S : m >= o

RECURSIVE SeqsUpTo(_, _)
SeqsUpTo(S, n) ==
    IF n = 0 THEN {<<>>}
    ELSE LET shorter == SeqsUpTo(S, n - 1)
         IN  shorter \cup {Append(s, c) : s \in shorter, c \in S}

\* positions of s, ascending, as a sequence
RECURSIVE SortedSeq(_)
SortedSeq(S) ==
    IF S = {} THEN <<>>
    ELSE <<SetMin(S)>> \o SortedSeq(S \ {SetMin(S)})

Pick(s, idx) == [k \in 1..Len(idx) |-> s[idx[k]]]

(***************************************************************************)
(* Characters: str.lower(), str.isspace() / the regex class \s.            *)
(***************************************************************************)
Uppers == <<"A","B","C","D","E","F","G","H","I","J","K","L","M",
            "N","O","P","Q","R","S","T","U","V","W","X","Y","Z">>

Lowers == <<"a","b","c","d","e","f","g","h","i","j","k","l","m",
            "n","o","p","q","r","s","t","u","v","w","x","y","z">>

LowerChar(c) ==
    IF \E i \in 1..26 : Uppers[i] = c
    THEN Lowers[CHOOSE i \in 1..26 : Uppers[i] = c]
    ELSE c

Lower(s) == [i \in 1..Len(s) |-> LowerChar(s[i])]

Whitespace == {" ", "\t", "\n", "\r"}

DigitChars == <<"0","1","2","3","4","5","6","7","8","9">>

\* str(n) of a non-negative int
RECURSIVE StrOfNat(_)
StrOfNat(n) ==
    IF n < 10 THEN <<DigitChars[n + 1]>>
    ELSE Append(StrOfNat(n \div 10), DigitChars[(n % 10) + 1])

(***************************************************************************)
(* Raw labels: None, a str, or a non-string value (an int).                *)
(***************************************************************************)
NoneLabel == [kind |-> "none", s |-> <<>>, n |-> 0]

StrLabel(s) == [kind |-> "str", s |-> s, n |-> 0]

IntLabel(n) == [kind |-> "int", s |-> <<>>, n |-> n]

AsLabels(headers) == [i \in 1..Len(headers) |-> StrLabel(headers[i])]

\* str(c)
Str(c) == IF c.kind = "int" THEN StrOfNat(c.n) ELSE c.s

(***************************************************************************)
(* normalize_headers                                                       *)
(***************************************************************************)
\* s.replace(a, b) for single characters
Replace(s, a, b) == [i \in 1..Len(s) |-> IF s[i] = a THEN b ELSE s[i]]

\* s.strip()
Strip(s) ==
    LET keep == {i \in 1..Len(s) : s[i] \notin Whitespace}
    IN  IF keep = {} THEN <<>> ELSE SubSeq(s, SetMin(keep), SetMax(keep))

RECURSIVE SkipWhitespace(_)
SkipWhitespace(s) ==
    IF s # <<>> /\ Head(s) \in Whitespace THEN SkipWhitespace(Tail(s)) ELSE s

\* the faulty variant re.sub(r"\s", " ", s): every whitespace character
\* becomes a space, runs are kept
ReSubEachWhitespace(s) ==
    [i \in 1..Len(s) |-> IF s[i] \in Whitespace THEN " " ELSE s[i]]

\* re.sub(r"\s+", " ", s)
RECURSIVE ReSubWhitespace(_)
ReSubWhitespace(s) ==
    IF s = <<>> THEN <<>>
    ELSE IF Head(s) \in Whitespace
         THEN <<" ">> \o ReSubWhitespace(SkipWhitespace(Tail(s)))
         ELSE <<Head(s)>> \o ReSubWhitespace(Tail(s))

NormalizeLabel(c) ==
    IF c.kind = "none" THEN <<>>
    ELSE ReSubWhitespace(Strip(Replace(Str(c), "\n", " ")))

normalize_headers(columns) ==
    [i \in 1..Len(columns) |-> NormalizeLabel(columns[i])]

(***************************************************************************)
(* Sensor patterns.  A pattern is a set of alternatives; an alternative    *)
(* [start, end, lit] is the regex (^)lit($) with ^ and $ present as the    *)
(* flags say.  The default ^(ALARM_|.*_C$) is ^ALARM_ | ^.*_C$, and on a   *)
(* header without newlines ^.*_C$ matches exactly when _C$ does.           *)
(***************************************************************************)
SENSOR_DEFAULT_REGEX ==
    { [start |-> TRUE,  end |-> FALSE, lit |-> <<"A","L","A","R","M","_">>],
      [start |-> FALSE, end |-> TRUE,  lit |-> <<"_","C">>] }

\* the pattern "stamp"
StampRegex == { [start |-> FALSE, end |-> FALSE, lit |-> <<"s","t","a","m","p">>] }

\* the empty pattern, which matches every header
EmptyRegex == { [start |-> FALSE, end |-> FALSE, lit |-> <<>>] }

Patterns == {SENSOR_DEFAULT_REGEX, StampRegex, EmptyRegex}

\* an alternative found in h, compared case-insensitively (re.IGNORECASE)
AltSearch(alt, h) ==
    LET lh == Lower(h)
        ll == Lower(alt.lit)
        n  == Len(ll)
        at(p) == p + n - 1 <= Len(lh) /\ SubSeq(lh, p, p + n - 1) = ll
    IN  \E p \in 1..(Len(lh) + 1) :
            /\ at(p)
            /\ alt.start => p = 1
            /\ alt.end => p + n - 1 = Len(lh)

\* rx.search(h)
Search(rx, h) == \E alt \in rx : AltSearch(alt, h)

META_GUESS ==
    { <<"S","/","N">>, <<"S"," ","N">>, <<"S","N">>,
      <<"D","a","t","e","/","T","i","m","e">>,
      <<"D","a","t","e"," ","T","i","m","e">>,
      <<"D","a","t","e","t","i","m","e">>,
      <<"D","a","t","e">>, <<"T","i","m","e">>, <<"D","a","y","s">> }

IsMeta(h) == Lower(h) \in {Lower(m) : m \in META_GUESS}

\* the faulty variant without the meta exclusion
DetectAllMatching(columns, rx) ==
    LET headers == normalize_headers(AsLabels(columns))
    IN  SelectSeq(headers, LAMBDA h : Search(rx, h))

detect_sensor_columns(columns, rx) ==
    LET headers == normalize_headers(AsLabels(columns))
    IN  SelectSeq(headers, LAMBDA h : ~IsMeta(h) /\ Search(rx, h))

(***************************************************************************)
(* Cells.  A cell is [k, v, f]:                                            *)
(*   na       None / NaN / NaT                                             *)
(*   ts       a timestamp, v ticks after 1970-01-01 00:00 plus f ns        *)
(*            (|f| is far below one tick)                                  *)
(*   datestr  text "DD/MM/YYYY HH:MM" that denotes the timestamp of tick v *)
(*   text     text that is neither a date nor a number ("N/A")             *)
(*   num      the number v / OneDay + f / (ns per day)                     *)
(*   nsint    the int64 count of nanoseconds of the timestamp (v, f)       *)
(*   inat     the int64 that NaT is stored as                              *)
(***************************************************************************)
\* pd.Timedelta(days=1), in ticks: a tick is half a day
OneDay == 2

\* origin="1899-12-30", in days before 1970-01-01
ExcelOriginDays == 25569

NA == [k |-> "na", v |-> 0, f |-> 0]

Ts(v, f) == [k |-> "ts", v |-> v, f |-> f]

DateStr(v) == [k |-> "datestr", v |-> v, f |-> 0]

Text(i) == [k |-> "text", v |-> i, f |-> 0]

Num(v, f) == [k |-> "num", v |-> v, f |-> f]

IntCell(n) == Num(n * OneDay, 0)

NsInt(v, f) == [k |-> "nsint", v |-> v, f |-> f]

INaT == [k |-> "inat", v |-> 0, f |-> 0]

IsNa(c) == c.k = "na"

MapCells(vals, Op(_)) == [i \in 1..Len(vals) |-> Op(vals[i])]

AllNa(vals) == \A i \in 1..Len(vals) : IsNa(vals[i])

NaCount(vals) == Cardinality({i \in 1..Len(vals) : IsNa(vals[i])})

\* the integer part of a number, towards zero (the cast to int64)
TruncToInt(c) ==
    IF c.v >= 0 THEN c.v \div OneDay ELSE -((-c.v) \div OneDay)

(***************************************************************************)
(* Series and frames.  df[h] is a Series when one column is named h and a  *)
(* DataFrame when several are: the model keeps of that DataFrame only its  *)
(* row count (dtype "frame").                                              *)
(***************************************************************************)
NoCol == [some |-> FALSE, name |-> <<>>]

Col(h) == [some |-> TRUE, name |-> h]

\* bool(x) of an optional column name: None and "" are falsy
Truthy(c) == c.some /\ c.name # <<>>

Names(df) == [j \in 1..Len(df.cols) |-> df.cols[j].name]

NRows(df) == Len(df.index)

Positions(df, h) == {j \in 1..Len(df.cols) : df.cols[j].name = h}

HasCol(df, h) == Positions(df, h) # {}

Select(df, h) ==
    IF Cardinality(Positions(df, h)) = 1
    THEN LET c == df.cols[SetMin(Positions(df, h))]
         IN  [dtype |-> c.dtype, vals |-> c.vals]
    ELSE [dtype |-> "frame", vals |-> [i \in 1..NRows(df) |-> NA]]

\* df[h] = series: every column named h takes the values, a new name is appended
Assign(df, h, s) ==
    IF HasCol(df, h)
    THEN [df EXCEPT !.cols =
            [j \in 1..Len(df.cols) |->
                IF df.cols[j].name = h
                THEN [name |-> h, dtype |-> s.dtype, vals |-> s.vals]
                ELSE df.cols[j]]]
    ELSE [df EXCEPT !.cols =
            Append(df.cols, [name |-> h, dtype |-> s.dtype, vals |-> s.vals])]

\* the rows at positions idx, in that order
TakeRows(df, idx) ==
    [cols  |-> [j \in 1..Len(df.cols) |->
                  [df.cols[j] EXCEPT !.vals = Pick(df.cols[j].vals, idx)]],
     index |-> Pick(df.index, idx),
     src   |-> Pick(df.src, idx)]

\* reset_index(drop=True)
ResetIndex(df) == [df EXCEPT !.index = [i \in 1..Len(df.index) |-> i - 1]]

RowIsBlank(df, i) == \A j \in 1..Len(df.cols) : IsNa(df.cols[j].vals[i])

\* the faulty variant dropna(how="any")
DropAnyNa(df) ==
    TakeRows(df, SortedSeq({i \in 1..NRows(df) :
                               \A j \in 1..Len(df.cols) : ~IsNa(df.cols[j].vals[i])}))

\* dropna(how="all")
DropNaAll(df) ==
    TakeRows(df, SortedSeq({i \in 1..NRows(df) : ~RowIsBlank(df, i)}))

(***************************************************************************)
(* pd.to_datetime(series, errors="coerce", dayfirst=True).                 *)
(* A datetime64 series is returned as it is; a numeric series is read as   *)
(* nanoseconds after 1970-01-01.  On an object series the format is        *)
(* guessed from the first non-null element: when that is a date text,      *)
(* every element is parsed with its format (a number then fails); without  *)
(* a format every element is parsed on its own, a bare number as           *)
(* nanoseconds after 1970-01-01.                                           *)
(***************************************************************************)
FromEpochNs(c) ==
    CASE c.k = "num"   -> Ts(0, TruncToInt(c))
      [] c.k = "nsint" -> Ts(c.v, c.f)
      [] OTHER         -> NA

ParseWithFormat(c) ==
    CASE c.k = "ts"      -> c
      [] c.k = "datestr" -> Ts(c.v, 0)
      [] OTHER           -> NA

ParseEach(c) ==
    CASE c.k = "ts"      -> c
      [] c.k = "datestr" -> Ts(c.v, 0)
      [] c.k = "num"     -> Ts(0, TruncToInt(c))
      [] OTHER           -> NA

FormatGuessed(vals) ==
    LET nn == {i \in 1..Len(vals) : ~IsNa(vals[i])}
    IN  nn # {} /\ vals[SetMin(nn)].k = "datestr"

to_datetime(s) ==
    CASE s.dtype = "datetime64" -> s
      [] s.dtype \in {"float64", "int64"} ->
            [dtype |-> "datetime64", vals |-> MapCells(s.vals, FromEpochNs)]
      [] OTHER ->
            [dtype |-> "datetime64",
             vals  |-> IF FormatGuessed(s.vals)
                       THEN MapCells(s.vals, ParseWithFormat)
                       ELSE MapCells(s.vals, ParseEach)]

(***************************************************************************)
(* pd.to_numeric(series, errors="coerce")                                  *)
(***************************************************************************)
NumericOfObject(c) == IF c.k = "num" THEN c ELSE NA

ViewAsInt64(c) == IF c.k = "ts" THEN NsInt(c.v, c.f) ELSE INaT

to_numeric(s) ==
    CASE s.dtype \in {"float64", "int64"} -> s
      [] s.dtype = "datetime64" ->
            [dtype |-> "int64", vals |-> MapCells(s.vals, ViewAsInt64)]
      [] OTHER ->
            [dtype |-> "float64", vals |-> MapCells(s.vals, NumericOfObject)]

(***************************************************************************)
(* coerce_datetime                                                         *)
(***************************************************************************)
AllNaT(n) == [dtype |-> "datetime64", vals |-> [i \in 1..n |-> NA]]

\* pd.to_datetime(numbers, unit="D", origin="1899-12-30") of one number
FromExcelSerial(c) ==
    IF c.k = "num" THEN Ts(c.v - ExcelOriginDays * OneDay, c.f) ELSE NA

\* the serial pass raises on the nanosecond counts of real timestamps
\* (OutOfBoundsDatetime), which the except clause swallows
SerialPassRaises(numbers) ==
    \E i \in 1..Len(numbers.vals) : numbers.vals[i].k = "nsint"

\* the faulty variant s2.fillna(s): the serial reading wins where it exists
SerialFirst(vals, vals2) ==
    [i \in 1..Len(vals) |-> IF IsNa(vals2[i]) THEN vals[i] ELSE vals2[i]]

\* s.fillna(s2)
FillNa(vals, vals2) ==
    [i \in 1..Len(vals) |-> IF IsNa(vals[i]) THEN vals2[i] ELSE vals[i]]

coerce_datetime(series) ==
    IF series.dtype = "frame"
    THEN \* to_datetime(DataFrame) raises, and so does to_numeric(DataFrame)
         AllNaT(Len(series.vals))
    ELSE LET s == to_datetime(series)
             numbers == to_numeric(series)
         IN  IF NaCount(s.vals) * 2 > Len(s.vals) /\ ~SerialPassRaises(numbers)
             THEN [s EXCEPT !.vals =
                      FillNa(s.vals, MapCells(numbers.vals, FromExcelSerial))]
             ELSE s

(***************************************************************************)
(* find_datetime_col                                                       *)
(***************************************************************************)
DatetimeCandidates ==
    << <<"D","a","t","e","/","T","i","m","e">>,
       <<"D","a","t","e"," ","T","i","m","e">>,
       <<"D","a","t","e","t","i","m","e">>,
       <<"T","i","m","e","s","t","a","m","p">>,
       <<"D","a","t","e">> >>

\* the loops the other way round: the first header, in table order, that is
\* named like any candidate
FirstHeaderNamedLikeACandidate(headers) ==
    LET named == {hi \in 1..Len(headers) :
                     \E ci \in 1..Len(DatetimeCandidates) :
                         Lower(headers[hi]) = Lower(DatetimeCandidates[ci])}
    IN  IF named = {} THEN NoCol ELSE Col(headers[SetMin(named)])

\* the two loops over candidates and headers
NamedDatetimeCol(headers) ==
    LET matches(ci) == {hi \in 1..Len(headers) :
                           Lower(headers[hi]) = Lower(DatetimeCandidates[ci])}
        hits == {ci \in 1..Len(DatetimeCandidates) : matches(ci) # {}}
    IN  IF hits = {} THEN NoCol
        ELSE Col(headers[SetMin(matches(SetMin(hits)))])

\* s.notna().mean() > 0.7; the mean of no rows is NaN, which is not > 0.7
ParsesToManyDatetimes(series) ==
    LET s == to_datetime(series)
    IN  (Len(s.vals) - NaCount(s.vals)) * 10 > 7 * Len(s.vals)

\* the fallback loop from header i on; pd.to_datetime(df[h]) raises when
\* df[h] is a DataFrame, df[h] raises when no column is named h
RECURSIVE FallbackDatetimeCol(_, _, _)
FallbackDatetimeCol(df, headers, i) ==
    IF i > Len(headers) THEN [raised |-> FALSE, col |-> NoCol]
    ELSE IF Cardinality(Positions(df, headers[i])) # 1
         THEN [raised |-> TRUE, col |-> NoCol]
         ELSE IF ParsesToManyDatetimes(Select(df, headers[i]))
              THEN [raised |-> FALSE, col |-> Col(headers[i])]
              ELSE FallbackDatetimeCol(df, headers, i + 1)

find_datetime_col(df) ==
    LET headers == normalize_headers(AsLabels(Names(df)))
        named   == NamedDatetimeCol(headers)
    IN  IF named.some THEN [raised |-> FALSE, col |-> named]
        ELSE FallbackDatetimeCol(df, headers, 1)

(***************************************************************************)
(* coerce_numeric: pd.to_numeric(df[c]) raises when df[c] is a DataFrame   *)
(***************************************************************************)
RECURSIVE coerce_numeric(_, _)
coerce_numeric(df, cols) ==
    IF cols = <<>> THEN [raised |-> FALSE, df |-> df]
    ELSE IF Cardinality(Positions(df, Head(cols))) # 1
         THEN [raised |-> TRUE, df |-> df]
         ELSE coerce_numeric(Assign(df, Head(cols), to_numeric(Select(df, Head(cols)))),
                             Tail(cols))

(***************************************************************************)
(* add_days_column                                                         *)
(***************************************************************************)
DaysName == <<"D","a","y","s">>

FirstValid(vals) == vals[SetMin({i \in 1..Len(vals) : ~IsNa(vals[i])})]

TsLeq(a, b) == a.v < b.v \/ (a.v = b.v /\ a.f <= b.f)

\* Timestamp.normalize(): midnight of the timestamp's day
NormalizeTs(t) ==
    LET w == IF t.f < 0 THEN t.v - 1 ELSE t.v
    IN  Ts(w - (w % OneDay), 0)

\* the faulty variant that takes the earliest timestamp
BaselineOfMin(vals) ==
    LET valid == {i \in 1..Len(vals) : ~IsNa(vals[i])}
    IN  NormalizeTs(vals[CHOOSE i \in valid : \A j \in valid : TsLeq(vals[i], vals[j])])

\* dt.dropna().iloc[0].normalize()
Baseline(vals) == NormalizeTs(FirstValid(vals))

\* (dt - baseline) / pd.Timedelta(days=1)
DaysSince(vals, baseline) ==
    [i \in 1..Len(vals) |->
        IF IsNa(vals[i]) THEN NA
        ELSE Num(vals[i].v - baseline.v, vals[i].f - baseline.f)]

\* the faulty variant that keeps an existing Days column
KeepDays(df) == df

\* df.drop(columns=["Days"]) when "Days" is a column
DropDays(df) ==
    [df EXCEPT !.cols = SelectSeq(df.cols, LAMBDA c : c.name # DaysName)]

FirstPos(df, h) == SetMin(Positions(df, h))

\* the number of columns left of the new column, insert_after honoured
InsertIdxAfter(df, dtc, ia) ==
    IF Truthy(ia) /\ HasCol(df, ia.name) THEN FirstPos(df, ia.name)
    ELSE IF HasCol(df, dtc.name) THEN FirstPos(df, dtc.name)
         ELSE Len(df.cols)

\* the number of columns left of the new column, insert_after not read
InsertIdxDt(df, dtc) ==
    IF HasCol(df, dtc.name) THEN FirstPos(df, dtc.name) ELSE Len(df.cols)

\* pd.concat([left, pd.DataFrame({"Days": days}), right], axis=1)
ConcatDays(df, idx, days) ==
    [df EXCEPT !.cols =
        SubSeq(df.cols, 1, idx)
        \o << [name |-> DaysName, dtype |-> "float64", vals |-> days] >>
        \o SubSeq(df.cols, idx + 1, Len(df.cols))]

\* streamlit_excel_cleaner_app.py
add_days_streamlit(df, dtc, ia) ==
    IF ~dtc.some \/ ~HasCol(df, dtc.name) THEN df
    ELSE LET sel == Select(df, dtc.name)
             dt  == IF sel.dtype = "datetime64" THEN sel ELSE coerce_datetime(sel)
         IN  IF AllNa(dt.vals) THEN df
             ELSE LET days == DaysSince(dt.vals, Baseline(dt.vals))
                      df2  == DropDays(df)
                  IN  ConcatDays(df2, InsertIdxAfter(df2, dtc, ia), days)

\* excel_cleaner_app.py: the coerced column is written back before the
\* all-missing test, and insert_after is not read
add_days_app(df, dtc, ia) ==
    IF ~dtc.some \/ ~HasCol(df, dtc.name) THEN df
    ELSE LET sel == Select(df, dtc.name)
             dt  == IF sel.dtype = "datetime64" THEN sel ELSE coerce_datetime(sel)
             df1 == IF sel.dtype = "datetime64" THEN df ELSE Assign(df, dtc.name, dt)
         IN  IF AllNa(dt.vals) THEN df1
             ELSE LET days == DaysSince(dt.vals, Baseline(dt.vals))
                      df2  == DropDays(df1)
                  IN  ConcatDays(df2, InsertIdxDt(df2, dtc), days)

\* excel_cleaner_app_2_like.py: the same statements as excel_cleaner_app.py
add_days_app_2_like(df, dtc, ia) ==
    IF ~dtc.some \/ ~HasCol(df, dtc.name) THEN df
    ELSE LET sel == Select(df, dtc.name)
             dt  == IF sel.dtype = "datetime64" THEN sel ELSE coerce_datetime(sel)
             df1 == IF sel.dtype = "datetime64" THEN df ELSE Assign(df, dtc.name, dt)
         IN  IF AllNa(dt.vals) THEN df1
             ELSE LET days == DaysSince(dt.vals, Baseline(dt.vals))
                      df2  == DropDays(df1)
                  IN  ConcatDays(df2, InsertIdxDt(df2, dtc), days)

Variants == {"streamlit", "app", "app_2_like"}

add_days_column(df, dtc, ia, var) ==
    CASE var = "streamlit" -> add_days_streamlit(df, dtc, ia)
      [] var = "app"       -> add_days_app(df, dtc, ia)
      [] OTHER             -> add_days_app_2_like(df, dtc, ia)

(***************************************************************************)
(* sort_values(dt_col): kind="quicksort" is not a stable sort, so rows     *)
(* with equal timestamps come out in any order; rows without a timestamp   *)
(* are put last (na_position="last") in the order they had.                *)
(***************************************************************************)
Perms(n) == {p \in [1..n -> 1..n] : \A i, j \in 1..n : i # j => p[i] # p[j]}

SortOrders(vals) ==
    LET n  == Len(vals)
        nn == n - NaCount(vals)
    IN  {p \in Perms(n) :
            /\ \A k \in 1..nn : ~IsNa(vals[p[k]])
            /\ \A k \in 1..(nn - 1) : TsLeq(vals[p[k]], vals[p[k + 1]])
            /\ \A k \in (nn + 1)..(n - 1) : p[k] < p[k + 1]}

(***************************************************************************)
(* The labels and cells the inputs are drawn from.                         *)
(***************************************************************************)
H_SN == <<"S","/","N">>

H_DateTime == <<"D","a","t","e","/","T","i","m","e">>

H_DateTimeUpper == <<"D","A","T","E","/","T","I","M","E"," ">>

H_Timestamp == <<"T","i","m","e","s","t","a","m","p">>

H_timestamp == <<"t","i","m","e","s","t","a","m","p">>

H_Date == <<"D","a","t","e">>

H_Days == <<"D","a","y","s">>

H_ALARM_HI == <<"A","L","A","R","M","_","H","I">>

H_PROBE_C == <<"P","R","O","B","E","_","C">>

H_PROBE_C_padded == <<" ","P","R","O","B","E","_","C","\n">>

H_TIME_C == <<"T","I","M","E","_","C">>

H_A == <<"A">>

H_B == <<"B">>

H_Missing == <<"M","i","s","s","i","n","g">>

\* timestamps, in ticks: midnight of day 10, its noon, midnight three days on
T_Midnight == 10 * OneDay

T_Noon == 10 * OneDay + 1

T_ThreeDaysOn == 13 * OneDay

EmptyFrame == [cols |-> <<>>, index |-> <<>>, src |-> <<>>]

\* a sheet as read with dtype=object: rows is a sequence of rows, each a
\* sequence of one cell per column
Sheet(names, rows) ==
    [cols  |-> [j \in 1..Len(names) |->
                  [name  |-> names[j],
                   dtype |-> "object",
                   vals  |-> [i \in 1..Len(rows) |-> rows[i][j]]]],
     index |-> [i \in 1..Len(rows) |-> i - 1],
     src   |-> [i \in 1..Len(rows) |-> i]]

\* header-wide sheets: many header rows, few kinds of cell
HeaderCases ==
    { <<>>,
      <<StrLabel(H_SN), StrLabel(H_DateTime), StrLabel(H_PROBE_C)>>,
      <<StrLabel(H_Timestamp), StrLabel(H_PROBE_C)>>,
      <<StrLabel(H_TIME_C), StrLabel(H_ALARM_HI)>>,
      <<StrLabel(H_PROBE_C), StrLabel(H_PROBE_C_padded)>>,
      <<StrLabel(H_PROBE_C), StrLabel(H_PROBE_C_padded), StrLabel(H_Date)>>,
      <<StrLabel(H_Date), StrLabel(H_timestamp)>>,
      <<NoneLabel, StrLabel(H_Days)>>,
      <<StrLabel(H_DateTimeUpper), StrLabel(H_DateTime)>>,
      <<StrLabel(H_Days), StrLabel(H_DateTime)>>,
      <<IntLabel(12), StrLabel(H_ALARM_HI)>> }

HeaderCells == {NA, DateStr(T_Noon), Text(1)}

HeaderSheets ==
    UNION { IF hs = <<>> THEN {Sheet(hs, <<>>)}
            ELSE {Sheet(hs, rows) :
                    rows \in SeqsUpTo([1..Len(hs) -> HeaderCells], MaxHeaderRows)}
            : hs \in HeaderCases }

\* row-wide sheets: one header row, many rows
RowHeaders == <<StrLabel(H_DateTime), StrLabel(H_PROBE_C)>>

RowDateCells ==
    {NA, DateStr(T_Midnight), DateStr(T_Noon), DateStr(T_ThreeDaysOn), Text(1), IntCell(5)}

RowProbeCells == {NA, IntCell(1), Text(2)}

RowSheets ==
    {Sheet(RowHeaders, rows) :
        rows \in SeqsUpTo({<<d, p>> : d \in RowDateCells, p \in RowProbeCells}, MaxRows)}

\* sheets without a header of the priority list, for the content fallback:
\* a column of any cells, then a column of dates and empty cells
FallbackHeaders == <<StrLabel(H_A), StrLabel(H_TIME_C)>>

FallbackCells == {NA, DateStr(T_Noon), Text(1), IntCell(1)}

FallbackDateCells == {NA, DateStr(T_ThreeDaysOn)}

FallbackSheets ==
    {Sheet(FallbackHeaders, rows) :
        rows \in SeqsUpTo({<<a, d>> : a \in FallbackCells, d \in FallbackDateCells},
                          MaxRows)}

(***************************************************************************)
(* The cleaning pipeline (the "Main logic" of each script), one action per *)
(* stage.  pc names the stage that runs next.                              *)
(***************************************************************************)
PipelineInit(sheets, patterns) ==
    /\ pc = "NormalizeHeaders"
    /\ raised = "none"
    /\ variant \in Variants
    /\ pattern \in patterns
    /\ keep_blank_rows \in BOOLEAN
    /\ raw_df \in sheets
    /\ labels = Names(raw_df)
    /\ clean_df = EmptyFrame
    /\ dt_col = NoCol
    /\ sensor_cols = <<>>
    /\ insert_after = NoCol
    /\ df_in = EmptyFrame
    /\ df_out = EmptyFrame
    /\ df_out2 = EmptyFrame

Init ==
    \/ PipelineInit(HeaderSheets, Patterns)
    \/ PipelineInit(RowSheets, {SENSOR_DEFAULT_REGEX})
    \/ PipelineInit(FallbackSheets, {SENSOR_DEFAULT_REGEX})

\* raw_df.columns = normalize_headers(raw_df.columns)
Rename(df, headers) ==
    [df EXCEPT !.cols = [j \in 1..Len(df.cols) |->
                            [df.cols[j] EXCEPT !.name = headers[j]]]]

NormalizeHeaders ==
    /\ pc = "NormalizeHeaders"
    /\ raw_df' = Rename(raw_df, normalize_headers(Names(raw_df)))
    /\ pc' = "ClassifyColumns"
    /\ UNCHANGED <<raised, variant, labels, pattern, keep_blank_rows, clean_df,
                   dt_col, sensor_cols, insert_after, df_in, df_out, df_out2>>

ClassifyColumns ==
    /\ pc = "ClassifyColumns"
    /\ LET found == find_datetime_col(raw_df)
       IN  IF found.raised
           THEN /\ pc' = "Aborted"
                /\ raised' = "ClassifyColumns"
                /\ UNCHANGED <<dt_col, sensor_cols>>
           ELSE /\ pc' = "CoerceDatetime"
                /\ dt_col' = found.col
                /\ sensor_cols' = detect_sensor_columns(Names(raw_df), pattern)
                /\ UNCHANGED raised
    /\ UNCHANGED <<variant, labels, pattern, keep_blank_rows, raw_df, clean_df,
                   insert_after, df_in, df_out, df_out2>>

CoerceDatetime ==
    /\ pc = "CoerceDatetime"
    /\ clean_df' =
          IF dt_col.some
          THEN Assign(raw_df, dt_col.name, coerce_datetime(Select(raw_df, dt_col.name)))
          ELSE raw_df
    /\ pc' = "FilterBlankRows"
    /\ UNCHANGED <<raised, variant, labels, pattern, keep_blank_rows, raw_df,
                   dt_col, sensor_cols, insert_after, df_in, df_out, df_out2>>

FilterBlankRows ==
    /\ pc = "FilterBlankRows"
    /\ clean_df' = IF keep_blank_rows THEN clean_df
                   ELSE ResetIndex(DropNaAll(clean_df))
    /\ pc' = "CoerceSensors"
    /\ UNCHANGED <<raised, variant, labels, pattern, keep_blank_rows, raw_df,
                   dt_col, sensor_cols, insert_after, df_in, df_out, df_out2>>

CoerceSensors ==
    /\ pc = "CoerceSensors"
    /\ LET done == coerce_numeric(clean_df, sensor_cols)
       IN  IF done.raised
           THEN /\ pc' = "Aborted"
                /\ raised' = "CoerceSensors"
                /\ UNCHANGED clean_df
           ELSE /\ pc' = "DeriveDays"
                /\ clean_df' = done.df
                /\ UNCHANGED raised
    /\ UNCHANGED <<variant, labels, pattern, keep_blank_rows, raw_df,
                   dt_col, sensor_cols, insert_after, df_in, df_out, df_out2>>

DeriveDays ==
    /\ pc = "DeriveDays"
    /\ insert_after' = dt_col
    /\ clean_df' = add_days_column(clean_df, dt_col, dt_col, variant)
    /\ pc' = "SortByDatetime"
    /\ UNCHANGED <<raised, variant, labels, pattern, keep_blank_rows, raw_df,
                   dt_col, sensor_cols, df_in, df_out, df_out2>>

SortByDatetime ==
    /\ pc = "SortByDatetime"
    /\ IF Truthy(dt_col) /\ Select(clean_df, dt_col.name).dtype = "datetime64"
       THEN \E order \in SortOrders(Select(clean_df, dt_col.name).vals) :
                clean_df' = ResetIndex(TakeRows(clean_df, order))
       ELSE UNCHANGED clean_df
    /\ pc' = "Done"
    /\ UNCHANGED <<raised, variant, labels, pattern, keep_blank_rows, raw_df,
                   dt_col, sensor_cols, insert_after, df_in, df_out, df_out2>>

Next ==
    \/ NormalizeHeaders
    \/ ClassifyColumns
    \/ CoerceDatetime
    \/ FilterBlankRows
    \/ CoerceSensors
    \/ DeriveDays
    \/ SortByDatetime

Spec == Init /\ [][Next]_vars

(***************************************************************************)
(* The pipeline on label-wide sheets: labels of up to MaxLabelLen          *)
(* characters with spaces, tabs and newlines, None and numbers, no rows.   *)
(***************************************************************************)
LabelChars == {"a", " ", "\n", "\t"}

RawLabels ==
    {StrLabel(s) : s \in SeqsUpTo(LabelChars, MaxLabelLen)}
    \cup {NoneLabel, IntLabel(7), IntLabel(120)}

LabelSheets ==
    {Sheet(<<>>, <<>>)}
    \cup {Sheet(<<l>>, <<>>) : l \in RawLabels}
    \cup {Sheet(<<l, IntLabel(7)>>, <<>>) : l \in RawLabels}
    \cup {Sheet(<<NoneLabel, l>>, <<>>) : l \in RawLabels}

InitHeaders ==
    /\ PipelineInit(LabelSheets, {SENSOR_DEFAULT_REGEX})
    /\ variant = "streamlit"
    /\ keep_blank_rows = FALSE

SpecHeaders == InitHeaders /\ [][Next]_vars

(***************************************************************************)
(* add_days_column called on its own, twice in a row: the second call      *)
(* takes the table the first returned.                                     *)
(***************************************************************************)
H_Empty == <<>>

\* the column names of a table and the columns that hold its date values
DaysCases ==
    { [names |-> <<H_A, H_Date, H_B>>,    dates |-> {2}],
      [names |-> <<H_Days, H_Date, H_B>>, dates |-> {2}],
      [names |-> <<H_Date, H_B, H_Days>>, dates |-> {1}],
      [names |-> <<H_Date, H_Date>>,      dates |-> {1, 2}],
      [names |-> <<H_Empty, H_Date>>,     dates |-> {2}],
      [names |-> <<H_Days, H_B>>,         dates |-> {1}] }

ObjectDateCells == {NA, DateStr(T_Noon), DateStr(T_ThreeDaysOn), Text(1)}

StampCells == {NA, Ts(T_Noon, 0), Ts(T_ThreeDaysOn, 0)}

\* a table: the date columns hold vals, a Days column that is no date
\* column holds the float 7.0, any other column the number of its position
DaysFrame(case, dtype, vals) ==
    [cols  |-> [j \in 1..Len(case.names) |->
                  IF j \in case.dates
                  THEN [name |-> case.names[j], dtype |-> dtype, vals |-> vals]
                  ELSE IF case.names[j] = DaysName
                       THEN [name  |-> DaysName, dtype |-> "float64",
                             vals  |-> [i \in 1..Len(vals) |-> IntCell(7)]]
                       ELSE [name  |-> case.names[j], dtype |-> "object",
                             vals  |-> [i \in 1..Len(vals) |-> IntCell(j)]]],
     index |-> [i \in 1..Len(vals) |-> i - 1],
     src   |-> [i \in 1..Len(vals) |-> i]]

DaysFrames ==
    {DaysFrame(c, "object", vals) :
        c \in DaysCases, vals \in SeqsUpTo(ObjectDateCells, MaxRows)}
    \cup {DaysFrame(c, "datetime64", vals) :
        c \in DaysCases, vals \in SeqsUpTo(StampCells, MaxRows)}

InitDays ==
    /\ pc = "call"
    /\ raised = "none"
    /\ variant \in Variants
    /\ df_in \in DaysFrames
    /\ dt_col \in {NoCol, Col(H_Date), Col(H_Days), Col(H_Missing)}
    /\ insert_after \in {NoCol, Col(H_B), Col(H_Empty), Col(H_Days)}
    /\ df_out = EmptyFrame
    /\ df_out2 = EmptyFrame
    /\ labels = <<>>
    /\ pattern = SENSOR_DEFAULT_REGEX
    /\ keep_blank_rows = FALSE
    /\ raw_df = EmptyFrame
    /\ clean_df = EmptyFrame
    /\ sensor_cols = <<>>

AddDaysOnce ==
    /\ pc = "call"
    /\ df_out' = add_days_column(df_in, dt_col, insert_after, variant)
    /\ pc' = "once"
    /\ UNCHANGED <<raised, variant, labels, pattern, keep_blank_rows, raw_df,
                   clean_df, dt_col, sensor_cols, insert_after, df_in, df_out2>>

AddDaysTwice ==
    /\ pc = "once"
    /\ df_out2' = add_days_column(df_out, dt_col, insert_after, variant)
    /\ pc' = "twice"
    /\ UNCHANGED <<raised, variant, labels, pattern, keep_blank_rows, raw_df,
                   clean_df, dt_col, sensor_cols, insert_after, df_in, df_out>>

NextDays == AddDaysOnce \/ AddDaysTwice

SpecDays == InitDays /\ [][NextDays]_vars

(***************************************************************************)
(* coerce_datetime called on its own, as the pipeline calls it:            *)
(* df[dt_col] = coerce_datetime(df[dt_col]), on series of up to            *)
(* MaxSeriesLen values of each dtype.                                      *)
(***************************************************************************)
MaxSeriesLen == 3

\* the spreadsheet serial of 2021-01-04
Serial == 44200

ObjectCells == {NA, DateStr(T_Noon), Text(1), IntCell(Serial), Ts(T_Midnight, 0)}

FloatCells == {NA, IntCell(Serial)}

Int64Cells == {INaT, NsInt(T_Noon, 0)}

SeriesFrame(dtype, vals) ==
    [cols  |-> <<[name |-> H_Date, dtype |-> dtype, vals |-> vals]>>,
     index |-> [i \in 1..Len(vals) |-> i - 1],
     src   |-> [i \in 1..Len(vals) |-> i]]

SeriesFrames ==
    {SeriesFrame("object", vals) : vals \in SeqsUpTo(ObjectCells, MaxSeriesLen)}
    \cup {SeriesFrame("float64", vals) : vals \in SeqsUpTo(FloatCells, MaxSeriesLen)}
    \cup {SeriesFrame("int64", vals) : vals \in SeqsUpTo(Int64Cells, MaxSeriesLen)}
    \cup {SeriesFrame("datetime64", vals) : vals \in SeqsUpTo(StampCells, MaxSeriesLen)}

InitCoerce ==
    /\ pc = "coerce"
    /\ raised = "none"
    /\ variant = "streamlit"
    /\ df_in \in SeriesFrames
    /\ dt_col = Col(H_Date)
    /\ insert_after = NoCol
    /\ df_out = EmptyFrame
    /\ df_out2 = EmptyFrame
    /\ labels = <<>>
    /\ pattern = SENSOR_DEFAULT_REGEX
    /\ keep_blank_rows = FALSE
    /\ raw_df = EmptyFrame
    /\ clean_df = EmptyFrame
    /\ sensor_cols = <<>>

CoerceDatetimeCall ==
    /\ pc = "coerce"
    /\ df_out' = Assign(df_in, dt_col.name, coerce_datetime(Select(df_in, dt_col.name)))
    /\ pc' = "coerced"
    /\ UNCHANGED <<raised, variant, labels, pattern, keep_blank_rows, raw_df,
                   clean_df, dt_col, sensor_cols, insert_after, df_in, df_out2>>

NextCoerce == CoerceDatetimeCall

SpecCoerce == InitCoerce /\ [][NextCoerce]_vars

(***************************************************************************)
(* Properties.                                                             *)
(***************************************************************************)
\* classification has run and returned
Classified ==
    \/ pc \in {"CoerceDatetime", "FilterBlankRows", "CoerceSensors",
               "DeriveDays", "SortByDatetime", "Done"}
    \/ pc = "Aborted" /\ raised = "CoerceSensors"

\* the blank-row filter has run
Filtered ==
    \/ pc \in {"CoerceSensors", "DeriveDays", "SortByDatetime", "Done"}
    \/ pc = "Aborted" /\ raised = "CoerceSensors"

\* the timestamp a cell of a coerced datetime column stands for
StampOf(c) ==
    CASE c.k = "ts"    -> c
      [] c.k = "nsint" -> Ts(c.v, c.f)
      [] OTHER         -> NA

Ascending(s) == \A i \in 1..(Len(s) - 1) : s[i] < s[i + 1]

\* column x is immediately followed by the column Days
DaysRightAfter(df, x) ==
    \E j \in 1..(Len(df.cols) - 1) :
        df.cols[j].name = x /\ df.cols[j + 1].name = DaysName

\* the values of the dt_col column of df once coerced
CoercedDt(df) ==
    LET sel == Select(df, dt_col.name)
    IN  IF sel.dtype = "datetime64" THEN sel.vals ELSE coerce_datetime(sel).vals

\* the columns of df other than Days, as <<name, values>>
OtherCols(df) ==
    LET others == SelectSeq(df.cols, LAMBDA c : c.name # DaysName)
    IN  [j \in 1..Len(others) |-> <<others[j].name, others[j].vals>>]

\* C1: no stage of the pipeline aborts the run, whatever the sheet (colliding
\* or empty normalized headers, unparseable cells) and the pattern.
C1_NoStageAborts == pc # "Aborted"

\* C2: detect_sensor_columns returns no header that is, lower-cased, a member
\* of META_GUESS, even when the pattern matches it, and returns every other
\* header the pattern matches, in column order.
C2_SensorsAreTheNonMetaMatches ==
    Classified =>
        LET hs   == Names(raw_df)
            meta == {Lower(m) : m \in META_GUESS}
        IN  /\ \A k \in 1..Len(sensor_cols) : Lower(sensor_cols[k]) \notin meta
            /\ sensor_cols =
                  Pick(hs, SortedSeq({j \in 1..Len(hs) :
                                         Lower(hs[j]) \notin meta /\ Search(pattern, hs[j])}))

\* C2 witness: the empty pattern matches the meta headers S/N and Date/Time
\* of the sheet, and only PROBE_C is returned.
C2_Witness ==
    /\ Classified
    /\ pattern = EmptyRegex
    /\ Names(raw_df) = <<H_SN, H_DateTime, H_PROBE_C>>
    /\ sensor_cols = <<H_PROBE_C>>

\* C3: in one classification run the header find_datetime_col returns is not
\* in the list detect_sensor_columns returns.
C3_RolesExclusive ==
    Classified =>
        (dt_col.some => \A k \in 1..Len(sensor_cols) : sensor_cols[k] # dt_col.name)

\* C10: normalize_headers is idempotent, keeps the length and order of the
\* labels, and its results have no newline, no leading or trailing
\* whitespace and no run of two whitespace characters.
C10_NormalizeIdempotent ==
    pc # "NormalizeHeaders" =>
        LET hs == Names(raw_df)
        IN  /\ normalize_headers(AsLabels(hs)) = hs
            /\ Len(hs) = Len(labels)
            /\ \A i \in 1..Len(hs) :
                  /\ hs[i] = normalize_headers(<<labels[i]>>)[1]
                  /\ \A k \in 1..Len(hs[i]) : hs[i][k] # "\n"
                  /\ hs[i] # <<>> =>
                        hs[i][1] \notin Whitespace /\ hs[i][Len(hs[i])] \notin Whitespace
                  /\ \A k \in 1..(Len(hs[i]) - 1) :
                        ~(hs[i][k] \in Whitespace /\ hs[i][k + 1] \in Whitespace)

\* C10 witness: the labels "a\n\ta" and 7 have been normalized to "a a", "7".
C10_Witness ==
    /\ pc # "NormalizeHeaders"
    /\ labels = <<StrLabel(<<"a", "\n", "\t", "a">>), IntLabel(7)>>
    /\ Names(raw_df) = << <<"a", " ", "a">>, <<"7">> >>

(***************************************************************************)
(* Properties of add_days_column called on its own (SpecDays).             *)
(***************************************************************************)
\* add_days_column has nothing to derive from
NothingToDerive(df) ==
    \/ ~dt_col.some
    \/ ~HasCol(df, dt_col.name)
    \/ AllNa(CoercedDt(df))

SameColumnsAndValues(a, b) ==
    /\ Names(a) = Names(b)
    /\ \A j \in 1..Len(a.cols) : a.cols[j].vals = b.cols[j].vals

\* C4: add_days_column returns the table unchanged (same columns, order and
\* cell values, those of the datetime column included) when dt_col is None,
\* names no column, or has only missing values after coercion, in each of
\* the three scripts.  Stated for tables in which no two columns are called
\* dt_col.
C4_NoOpReturnsTableUnchanged ==
    (/\ pc # "call"
     /\ NothingToDerive(df_in)
     /\ Cardinality(Positions(df_in, dt_col.name)) <= 1)
        => SameColumnsAndValues(df_out, df_in)

\* dt_col and insert_after are ordinary column names: neither is Days, the
\* column the call replaces, and insert_after is not the empty name
OrdinaryNames ==
    /\ dt_col.name # DaysName
    /\ insert_after.some => (insert_after.name # <<>> /\ insert_after.name # DaysName)

\* C5: with an insert_after that names a column other than dt_col the Days
\* column is placed right after that column, in each of the three scripts;
\* without insert_after it is placed right after dt_col.
C5_InsertAfterTakesPrecedence ==
    (pc # "call" /\ ~NothingToDerive(df_in) /\ OrdinaryNames) =>
        /\ (insert_after.some /\ HasCol(df_in, insert_after.name)
                /\ insert_after.name # dt_col.name)
              => DaysRightAfter(df_out, insert_after.name)
        /\ ~insert_after.some => DaysRightAfter(df_out, dt_col.name)

\* what C6 says of two calls in a row
TwiceGivesOneDaysColumn ==
    /\ Cardinality(Positions(df_out2, DaysName)) = 1
    /\ DaysRightAfter(df_out2, dt_col.name)
    /\ Cardinality(Positions(df_out, DaysName)) = 1
    /\ Select(df_out2, DaysName).vals = Select(df_out, DaysName).vals
    /\ OtherCols(df_out2) = OtherCols(df_out)
    /\ [j \in 1..Len(OtherCols(df_out2)) |-> OtherCols(df_out2)[j][1]]
          = [j \in 1..Len(OtherCols(df_in)) |-> OtherCols(df_in)[j][1]]
    /\ \A j \in 1..Len(OtherCols(df_in)) :
          (variant = "streamlit" \/ OtherCols(df_in)[j][1] # dt_col.name)
              => OtherCols(df_out2)[j] = OtherCols(df_in)[j]

\* C6 as stated: two calls of add_days_column with the same dt_col (a column
\* of the table, insert_after left out) give exactly one Days column, right
\* after dt_col, with the values of the first call, the other columns kept.
C6_TwiceGivesOneDaysColumn ==
    (pc = "twice" /\ ~insert_after.some /\ dt_col.some /\ HasCol(df_in, dt_col.name))
        => TwiceGivesOneDaysColumn

\* C6 as amended: the same, for a dt_col that names exactly one column, is
\* not the Days column itself and has a value that coerces to a timestamp.
C6_TwiceGivesOneDaysColumnWhenDerivable ==
    (/\ pc = "twice"
     /\ ~insert_after.some
     /\ dt_col.some
     /\ Cardinality(Positions(df_in, dt_col.name)) = 1
     /\ dt_col.name # DaysName
     /\ ~AllNa(CoercedDt(df_in)))
        => TwiceGivesOneDaysColumn

\* C6 witness: the table had a Days column of 7.0 left of Date; after two
\* calls the one Days column follows Date and holds the derived 0.5 and 3.
C6_Witness ==
    /\ pc = "twice"
    /\ ~insert_after.some
    /\ dt_col = Col(H_Date)
    /\ Names(df_in) = <<H_Days, H_Date, H_B>>
    /\ Names(df_out2) = <<H_Date, H_Days, H_B>>
    /\ Select(df_out2, H_Days).vals = <<Num(1, 0), IntCell(3)>>

(***************************************************************************)
(* Properties of the pipeline's rows (Spec).                               *)
(***************************************************************************)
\* midnight of the day of timestamp t
MidnightOf(t) == Ts(t.v - (t.v % OneDay), 0)

\* the Days column of after holds, for every row, the days between the
\* row's timestamp in before and the midnight of the first timestamp there
DaysFollowFirstTimestamp(before, after) ==
    LET col    == Select(before, dt_col.name)
        stamps == [i \in 1..Len(col.vals) |-> StampOf(col.vals[i])]
        valid  == {i \in 1..Len(stamps) : ~IsNa(stamps[i])}
    IN  (dt_col.some /\ col.dtype # "frame" /\ valid # {}) =>
            /\ Cardinality(Positions(after, DaysName)) = 1
            /\ LET days == Select(after, DaysName).vals
                   base == MidnightOf(stamps[SetMin(valid)])
               IN  /\ Len(days) = Len(stamps)
                   /\ \A i \in 1..Len(stamps) :
                         IF i \in valid
                         THEN days[i] = Num(stamps[i].v - base.v, stamps[i].f)
                         ELSE IsNa(days[i])

\* C7: when dt_col has a timestamp, DeriveDays gives every row the days
\* between its timestamp and the midnight of the first non-missing timestamp
\* in the row order of that moment (not of the earliest one), and a missing
\* Days value to a row without a timestamp.
C7_DaysFollowFirstTimestamp ==
    [][pc = "DeriveDays" => DaysFollowFirstTimestamp(clean_df, clean_df')]_vars

\* C7 witness: Days has been derived for the rows 13th 00:00, 10th 00:00:
\* the baseline is the 13th, the first row gets exactly 0 and the earlier
\* second row exactly -3.
C7_Witness ==
    /\ pc = "SortByDatetime"
    /\ dt_col = Col(H_DateTime)
    /\ HasCol(clean_df, H_DateTime)
    /\ Select(clean_df, H_DateTime).vals = <<Ts(T_ThreeDaysOn, 0), Ts(T_Midnight, 0)>>
    /\ HasCol(clean_df, DaysName)
    /\ Select(clean_df, DaysName).vals = <<IntCell(0), IntCell(-3)>>

\* C8: with a datetime column detected the cleaned rows are in ascending
\* order of its timestamps, rows with equal timestamps in the order they had
\* before, rows without a timestamp last in the order they had before;
\* without a datetime column the rows keep their order.
C8_SortedAscendingAndStable ==
    pc = "Done" =>
        IF dt_col.some
        THEN LET col    == Select(clean_df, dt_col.name)
                 stamps == [i \in 1..Len(col.vals) |-> StampOf(col.vals[i])]
                 src    == clean_df.src
             IN  \A i, j \in 1..Len(stamps) :
                    i < j =>
                        /\ (~IsNa(stamps[i]) /\ ~IsNa(stamps[j])) =>
                              /\ TsLeq(stamps[i], stamps[j])
                              /\ stamps[i] = stamps[j] => src[i] < src[j]
                        /\ IsNa(stamps[i]) => IsNa(stamps[j])
                        /\ (IsNa(stamps[i]) /\ IsNa(stamps[j])) => src[i] < src[j]
        ELSE Ascending(clean_df.src)

\* the rows of the sheet, by position, that are not blank
NonBlankRows(df) == {i \in 1..NRows(df) : ~RowIsBlank(df, i)}

\* C9 as stated: without keep-blank-rows the cleaned table holds exactly the
\* rows of the sheet that are not fully blank, with it every row.
C9_KeepsTheNonBlankInputRows ==
    pc = "Done" =>
        /\ Range(clean_df.src) =
              IF keep_blank_rows THEN 1..NRows(raw_df) ELSE NonBlankRows(raw_df)
        /\ NRows(clean_df) = Cardinality(Range(clean_df.src))

\* the sheet with its datetime column coerced, as the filter finds it
CoercedSheet ==
    IF dt_col.some
    THEN Assign(raw_df, dt_col.name, [dtype |-> "datetime64", vals |-> CoercedDt(raw_df)])
    ELSE raw_df

\* C9 as amended: without keep-blank-rows the filter removes exactly the rows
\* in which every cell is missing once the datetime column is coerced, keeps
\* the others in their order and re-indexes from zero; with it no row is
\* removed; no later stage adds or removes a row.
C9_KeepsTheRowsNotBlankAfterCoercion ==
    Filtered =>
        /\ Range(clean_df.src) =
              IF keep_blank_rows THEN 1..NRows(raw_df) ELSE NonBlankRows(CoercedSheet)
        /\ NRows(clean_df) = Cardinality(Range(clean_df.src))
        /\ pc # "Done" => Ascending(clean_df.src)
        /\ clean_df.index = [i \in 1..NRows(clean_df) |-> i - 1]
        /\ \A j \in 1..Len(clean_df.cols) : Len(clean_df.cols[j].vals) = NRows(clean_df)

\* C9 witness: of the rows ("N/A", empty) and (a date, 1) only the second is
\* left: the first was blank once "N/A" was coerced.
C9_Witness ==
    /\ pc = "Done"
    /\ ~keep_blank_rows
    /\ Len(raw_df.cols) = 2
    /\ raw_df.cols[1].vals = <<Text(1), DateStr(T_Noon)>>
    /\ raw_df.cols[2].vals = <<NA, IntCell(1)>>
    /\ clean_df.src = <<2>>

(***************************************************************************)
(* Properties of find_datetime_col in the pipeline (Spec).                 *)
(***************************************************************************)
\* the positions of the headers of the sheet that are named, whatever the
\* case, like candidate ci of the priority list
NamedLike(ci) ==
    {hi \in 1..Len(raw_df.cols) :
        Lower(raw_df.cols[hi].name) = Lower(DatetimeCandidates[ci])}

\* C11: when a header is named like a candidate of the priority list,
\* find_datetime_col returns the first header in table order that is named
\* like the earliest candidate with any such header, wherever the headers
\* named like later candidates stand, and the content fallback is not run:
\* the cells do not matter, and colliding headers, on which the fallback
\* raises, do not abort the classification.
C11_NamePriorityDecides ==
    (/\ pc \notin {"NormalizeHeaders", "ClassifyColumns"}
     /\ \E ci \in 1..Len(DatetimeCandidates) : NamedLike(ci) # {})
        => /\ raised # "ClassifyColumns"
           /\ \E ci \in 1..Len(DatetimeCandidates) :
                 /\ NamedLike(ci) # {}
                 /\ \A cj \in 1..(ci - 1) : NamedLike(cj) = {}
                 /\ \E hi \in NamedLike(ci) :
                       /\ \A hj \in NamedLike(ci) : hi <= hj
                       /\ dt_col = Col(raw_df.cols[hi].name)

\* C11 witness: in the sheet with the headers Date, timestamp, whose Date
\* column holds a date and whose timestamp column holds "N/A", the later
\* header timestamp is returned: Timestamp comes before Date in the list.
C11_Witness ==
    /\ Classified
    /\ Names(raw_df) = <<H_Date, H_timestamp>>
    /\ raw_df.cols[1].vals = <<DateStr(T_Noon)>>
    /\ raw_df.cols[2].vals = <<Text(1)>>
    /\ dt_col = Col(H_timestamp)

\* the number of cells of vals that are not missing
NotNaCount(vals) == Len(vals) - NaCount(vals)

\* column j of the sheet: more than 0.7 of its non-empty values parse as dates
ParsesMostNonEmpty(j) ==
    LET col == raw_df.cols[j]
    IN  NotNaCount(to_datetime(col).vals) * 10 > 7 * NotNaCount(col.vals)

\* C12: when no header is named like a candidate of the priority list,
\* find_datetime_col returns the first column in table order of whose
\* non-empty values strictly more than 0.7 parse as dates (empty cells do
\* not lower the ratio), and none when there is no such column.
C12_FallbackRatioOverNonEmpty ==
    (/\ pc \notin {"NormalizeHeaders", "ClassifyColumns"}
     /\ raised # "ClassifyColumns"
     /\ \A ci \in 1..Len(DatetimeCandidates) : NamedLike(ci) = {})
        => LET most == {j \in 1..Len(raw_df.cols) : ParsesMostNonEmpty(j)}
           IN  dt_col = IF most = {} THEN NoCol
                        ELSE Col(raw_df.cols[SetMin(most)].name)

(***************************************************************************)
(* Properties of coerce_datetime called on its own (SpecCoerce).           *)
(***************************************************************************)
\* the timestamp that lies as many days after 1899-12-30 as the number c says
DaysAfterOrigin(c) == Ts(c.v - ExcelOriginDays * OneDay, c.f)

====
